---- MODULE Spec2Model ----
(***************************************************************************)
(* Job scheduler of the Maestro QDMI device: the job queue, the worker     *)
(* thread (MAESTRO_QDMI_Device_State::Run), the job and device status      *)
(* state machines, cancellation and waiting.                               *)
(***************************************************************************)
EXTENDS Integers, Sequences, FiniteSets, TLC

\* Number of jobs the callers create (caps the job_id counter).
NJobs == 2

Jobs == 0 .. (NJobs - 1)

\* nullptr for current_job, and "no job yet" for the bookkeeping variables.
NULL == -1

VARIABLES
    session,        \* MAESTRO_QDMI_Device_Session_impl_d::status of the one session
    status,         \* MAESTRO_QDMI_Device_State::status (device status)
    job_id,         \* MAESTRO_QDMI_Device_State::job_id (next id to hand out)
    job,            \* the live job objects: id -> [status, results]
    jobs,           \* MAESTRO_QDMI_Device_State::jobs (the queue; keys of the map)
    current_job,    \* MAESTRO_QDMI_Device_State::current_job
    stop_thread,    \* MAESTRO_QDMI_Device_State::stop_thread
    joinable,       \* Thread.joinable()
    w_pc,           \* where the worker thread is in Run()
    w_program,      \* Run()'s local copy of the program: the job it was copied from
    c_pc,           \* per job: the API call of its owner that is past its status check
    l_pc,           \* the thread calling device_initialize/device_finalize
    wait_ret,       \* what the last MAESTRO_QDMI_device_job_wait returned, and for which job
    \* bookkeeping for the properties (never read by the actions' guards)
    last_started,   \* id of the job the worker started last
    fifo,           \* the queued ids in the order AddJob first inserted them
    cq,             \* the job CancelJob removed from the queue last
    \* the callers' view
    api_ret,        \* the last recorded API call: << call, job, what it returned ... >>
    params,         \* per job id: the fields job_set_parameter writes
    session_data,   \* the session's fields that session_set_parameter writes
    simulator_mutex \* MAESTRO_QDMI_Device_State::simulator_mutex: "free", or "worker"
                    \* while Run() holds it from one of its steps to the next

vars == << session, status, job_id, job, jobs, current_job, stop_thread, joinable,
           w_pc, w_program, c_pc, l_pc, wait_ret, last_started, fifo, cq, api_ret, params, session_data, simulator_mutex >>

sched == << status, jobs, current_job, stop_thread, joinable, w_pc, w_program >>
ghost == << last_started, fifo, cq >>

----------------------------------------------------------------------------
(* Backend result texts and the histogram parser *)

Quote == "\""

\* "counts": the marker ParseResults looks for (9 characters).
Marker == << Quote, "c", "o", "u", "n", "t", "s", Quote, ":" >>

\* Texts the backend's SimpleExecute can return.
TextOne   == << "{" >> \o Marker \o << " ", "{", Quote, "1", "1", Quote, ":", " ", "3", "}", "}" >>
TextEmpty == << "{" >> \o Marker \o << " ", "{", "}", "}" >>
TextError == << "{", Quote, "e", "r", "r", Quote, ":", "1", "}" >>

BackendTexts == { TextOne, TextEmpty, TextError }

Digits == << "0", "1", "2", "3", "4", "5", "6", "7", "8", "9" >>

DigitVal(c) == (CHOOSE i \in 1 .. 10 : Digits[i] = c) - 1

\* res.find("\"counts\":"): the first position of the marker, 0 when absent.
Find(res) ==
    LET hits == { i \in 1 .. Len(res) :
                    /\ i + Len(Marker) - 1 <= Len(res)
                    /\ SubSeq(res, i, i + Len(Marker) - 1) = Marker }
    IN  IF hits = {} THEN 0 ELSE CHOOSE i \in hits : \A k \in hits : i <= k

\* The first position >= p whose character is in stops, Len(res) + 1 when none.
RECURSIVE ScanTo(_, _, _)
ScanTo(res, p, stops) ==
    IF p > Len(res) \/ res[p] \in stops THEN p ELSE ScanTo(res, p + 1, stops)

\* The first position >= p whose character is not in skip.
RECURSIVE SkipOver(_, _, _)
SkipOver(res, p, skip) ==
    IF p <= Len(res) /\ res[p] \in skip THEN SkipOver(res, p + 1, skip) ELSE p

\* std::stoull on a digit string.
RECURSIVE Stoull(_)
Stoull(v) ==
    IF v = << >> THEN 0 ELSE Stoull(SubSeq(v, 1, Len(v) - 1)) * 10 + DigitVal(v[Len(v)])

\* results[key] = count, the histogram being a set of <<bitstring, count>> pairs
\* with one pair per bitstring (std::map).
Put(h, key, count) == { e \in h : e[1] # key } \cup { << key, count >> }

\* The while loop of ParseResults from position p, with the key read last.
RECURSIVE ParseLoop(_, _, _, _)
ParseLoop(res, p, key, h) ==
    IF p > Len(res) \/ res[p] = "}" THEN h
    ELSE IF res[p] = Quote THEN
        LET e == ScanTo(res, p + 1, { Quote })
        IN  ParseLoop(res, e + 1, SubSeq(res, p + 1, e - 1), h)
    ELSE IF res[p] = ":" THEN
        LET b == SkipOver(res, p + 1, { " ", "\n" })
            e == ScanTo(res, b, { ",", "}", "\n", " " })
            value == SubSeq(res, b, e - 1)
        IN  IF key # << >> /\ value # << >>
            THEN ParseLoop(res, e, key, Put(h, key, Stoull(value)))
            ELSE ParseLoop(res, e, key, h)
    ELSE ParseLoop(res, p + 1, key, h)

\* The histogram of a text that holds the marker.
ParseCounts(res) ==
    ParseLoop(res, ScanTo(res, Find(res) + Len(Marker), { "{" }) + 1, << >>, {})

\* Every text's histogram, evaluated once.
Parsed == [ res \in BackendTexts |-> IF Find(res) = 0 THEN {} ELSE ParseCounts(res) ]

\* MAESTRO_QDMI_Device_Job_impl_d::ParseResults: the job's results after parsing res.
ParseResults(results, res) ==
    IF Find(res) = 0 THEN results ELSE Parsed[res]

----------------------------------------------------------------------------
\* The fields of a new job: the member initializers of the job structure and
\* the session's defaults that create_device_job copies.
JobDefaults ==
    [ program |-> "nullptr", format |-> "QASM2", num_shots |-> 1, qubits_num |-> 64,
      simType |-> 0, simExecType |-> 0, maxBondDim |-> 0 ]

\* The member initializers of the session structure.
SessionDefaults ==
    [ token |-> "", qubits_num |-> 64, simType |-> 0, simExecType |-> 0, maxBondDim |-> 0 ]

Init ==
    /\ session = "NONE"
    /\ status = "OFFLINE"
    /\ job_id = 0
    /\ job = << >>
    /\ jobs = {}
    /\ current_job = NULL
    /\ stop_thread = FALSE
    /\ joinable = FALSE
    /\ w_pc = "none"
    /\ w_program = NULL
    /\ c_pc = [ j \in Jobs |-> "idle" ]
    /\ l_pc = "idle"
    /\ wait_ret = << NULL, "NONE" >>
    /\ last_started = NULL
    /\ fifo = << >>
    /\ cq = NULL
    /\ api_ret = << "none", NULL, "NONE", << >> >>
    /\ params = [ j \in Jobs |-> JobDefaults ]
    /\ session_data = SessionDefaults
    /\ simulator_mutex = "free"

----------------------------------------------------------------------------
(* Helpers *)

Min(S) == CHOOSE x \in S : \A y \in S : x <= y

Remove(seq, j) == SelectSeq(seq, LAMBDA x : x # j)

Live == DOMAIN job

\* Condition.notify_one(): a worker blocked in Condition.wait re-tests its predicate.
Notify == IF w_pc = "blocked" THEN "top" ELSE w_pc

TerminateWait == jobs # {} \/ stop_thread

----------------------------------------------------------------------------
(* Sessions and job creation *)

session_alloc ==
    /\ session = "NONE"
    /\ session' = "ALLOCATED"
    /\ UNCHANGED << status, job_id, job, jobs, current_job, stop_thread, joinable,
                    w_pc, w_program, c_pc, l_pc, wait_ret, api_ret, params, session_data, simulator_mutex, ghost >>

session_init ==
    /\ session # "NONE"
    /\ session' = IF status \in { "OFFLINE", "ERROR", "MAINTENANCE" }
                  THEN session ELSE "INITIALIZED"
    /\ UNCHANGED << status, job_id, job, jobs, current_job, stop_thread, joinable,
                    w_pc, w_program, c_pc, l_pc, wait_ret, api_ret, params, session_data, simulator_mutex, ghost >>

create_device_job ==
    /\ session = "INITIALIZED"
    /\ job_id < NJobs
    /\ job_id' = job_id + 1
    /\ job' = [ k \in Live \cup { job_id } |->
                  IF k = job_id THEN [ status |-> "CREATED", results |-> {} ] ELSE job[k] ]
    /\ params' = [ params EXCEPT ![job_id] =
                      [ JobDefaults EXCEPT !.qubits_num = session_data.qubits_num,
                                           !.simType = session_data.simType,
                                           !.simExecType = session_data.simExecType,
                                           !.maxBondDim = session_data.maxBondDim ] ]
    /\ UNCHANGED << session_data, simulator_mutex, session, sched, c_pc, l_pc, wait_ret, api_ret, ghost >>

----------------------------------------------------------------------------
(* Scheduler operations called by the job API *)

AddJob(j) ==
    /\ jobs' = jobs \cup { j }
    /\ job' = [ job EXCEPT ![j].status = "QUEUED" ]
    /\ w_pc' = Notify
    /\ fifo' = IF j \in jobs THEN fifo ELSE Append(fifo, j)
    /\ UNCHANGED << status, current_job, stop_thread, joinable, w_program, last_started, cq >>

\* CancelJob leaving current_job pointing at the canceled job.
CancelJobSched_KeepCurrent(j) ==
    /\ jobs' = jobs \ { j }
    /\ fifo' = Remove(fifo, j)
    /\ cq' = IF j \in jobs THEN j ELSE cq
    /\ UNCHANGED << status, current_job, stop_thread, joinable, w_pc, w_program, last_started >>

\* The part of CancelJob that touches the scheduler.
CancelJobSched(j) ==
    /\ jobs' = jobs \ { j }
    /\ current_job' = IF current_job = j THEN NULL ELSE current_job
    /\ fifo' = Remove(fifo, j)
    /\ cq' = IF j \in jobs THEN j ELSE cq
    /\ UNCHANGED << status, stop_thread, joinable, w_pc, w_program, last_started >>

\* CancelJob marking only a job it found in the queue.
CancelJob_QueuedOnly(j) ==
    /\ CancelJobSched(j)
    /\ job' = IF j \in jobs THEN [ job EXCEPT ![j].status = "CANCELED" ] ELSE job

CancelJob(j) ==
    /\ CancelJobSched(j)
    /\ job' = [ job EXCEPT ![j].status = "CANCELED" ]

\* RemoveJob leaving current_job as it is before the delete.
RemoveJob_KeepCurrent(j) ==
    /\ CancelJobSched_KeepCurrent(j)
    /\ job' = [ k \in Live \ { j } |-> job[k] ]

\* CancelJob(job); delete job;
RemoveJob(j) ==
    /\ CancelJobSched(j)
    /\ job' = [ k \in Live \ { j } |-> job[k] ]

----------------------------------------------------------------------------
(* Job API.  submit and cancel test the status before they take the lock. *)

job_submit(j) ==
    /\ j \in Live /\ c_pc[j] = "idle"
    /\ c_pc' = IF job[j].status = "DONE" THEN c_pc ELSE [ c_pc EXCEPT ![j] = "submit" ]
    /\ UNCHANGED << session, job_id, job, sched, l_pc, wait_ret, api_ret, params, session_data, simulator_mutex, ghost >>

job_submit_AddJob(j) ==
    /\ c_pc[j] = "submit"
    /\ AddJob(j)
    /\ c_pc' = [ c_pc EXCEPT ![j] = "idle" ]
    /\ UNCHANGED << session, job_id, l_pc, wait_ret, api_ret, params, session_data, simulator_mutex >>

job_cancel(j) ==
    /\ j \in Live /\ c_pc[j] = "idle"
    /\ c_pc' = IF job[j].status = "DONE" THEN c_pc ELSE [ c_pc EXCEPT ![j] = "cancel" ]
    /\ UNCHANGED << session, job_id, job, sched, l_pc, wait_ret, api_ret, params, session_data, simulator_mutex, ghost >>

job_cancel_CancelJob(j) ==
    /\ c_pc[j] = "cancel"
    /\ CancelJob(j)
    /\ c_pc' = [ c_pc EXCEPT ![j] = "idle" ]
    /\ UNCHANGED << session, job_id, l_pc, wait_ret, api_ret, params, session_data, simulator_mutex >>

job_free(j) ==
    /\ j \in Live /\ c_pc[j] = "idle"
    /\ RemoveJob(j)
    /\ wait_ret' = IF wait_ret[1] = j THEN << NULL, "NONE" >> ELSE wait_ret
    /\ UNCHANGED << session, job_id, c_pc, l_pc, api_ret, params, session_data, simulator_mutex >>

\* The value MAESTRO_QDMI_device_job_wait returns: decided by its last read of the status.
job_wait_result(st) == IF st = "DONE" THEN "SUCCESS" ELSE "TIMEOUT"

job_wait(j) ==
    /\ j \in Live /\ c_pc[j] = "idle"
    /\ wait_ret' = << j, job_wait_result(job[j].status) >>
    /\ UNCHANGED << session, job_id, job, sched, c_pc, l_pc, ghost, api_ret, params, session_data, simulator_mutex >>

----------------------------------------------------------------------------
(* The worker thread: MAESTRO_QDMI_Device_State::Run *)

Run_init ==
    /\ w_pc = "init"
    /\ \E loaded \in BOOLEAN :
         IF loaded
         THEN /\ w_pc' = "top"
              /\ UNCHANGED status
         ELSE /\ w_pc' = "exited"
              /\ status' = "OFFLINE"
    /\ UNCHANGED << session, job_id, job, jobs, current_job, stop_thread, joinable,
                    w_program, c_pc, l_pc, wait_ret, api_ret, params, session_data, simulator_mutex, ghost >>

\* Taking the last entry of the map instead of the first.
Pick_Last(q) == CHOOSE x \in q : \A y \in q : y <= x

\* The job the while loop takes: jobs.begin().
Pick(q) == Min(q)

\* The while loop taking the first job of the map.
Run_pop ==
    /\ w_pc = "top"
    /\ jobs # {} /\ ~stop_thread
    /\ LET j == Pick(jobs) IN
         /\ status' = "BUSY"
         /\ current_job' = j
         /\ jobs' = jobs \ { j }
         /\ job' = [ job EXCEPT ![j].status = "RUNNING" ]
         /\ w_program' = j
         /\ last_started' = j
         /\ fifo' = Remove(fifo, j)
    /\ w_pc' = "exec"
    /\ UNCHANGED << session, job_id, stop_thread, joinable, c_pc, l_pc, wait_ret, api_ret, params, session_data, simulator_mutex, cq >>

Run_block ==
    /\ w_pc = "top"
    /\ ~TerminateWait
    /\ w_pc' = "blocked"
    /\ UNCHANGED << session, status, job_id, job, jobs, current_job, stop_thread, joinable,
                    w_program, c_pc, l_pc, wait_ret, api_ret, params, session_data, simulator_mutex, ghost >>

Run_spurious ==
    /\ w_pc = "blocked"
    /\ w_pc' = "top"
    /\ UNCHANGED << session, status, job_id, job, jobs, current_job, stop_thread, joinable,
                    w_program, c_pc, l_pc, wait_ret, api_ret, params, session_data, simulator_mutex, ghost >>

\* The worker leaving its loop whenever it finds no work.
Run_break_WhenIdle ==
    /\ w_pc = "top"
    /\ stop_thread \/ jobs = {}
    /\ w_pc' = "exited"
    /\ UNCHANGED << session, status, job_id, job, jobs, current_job, stop_thread, joinable,
                    w_program, c_pc, l_pc, wait_ret, api_ret, params, session_data, simulator_mutex, ghost >>

\* if (stop_thread) break;
Run_break ==
    /\ w_pc = "top"
    /\ stop_thread
    /\ w_pc' = "exited"
    /\ UNCHANGED << session, status, job_id, job, jobs, current_job, stop_thread, joinable,
                    w_program, c_pc, l_pc, wait_ret, api_ret, params, session_data, simulator_mutex, ghost >>

\* The backend call returns and the worker goes back to its loop without the
\* completion of the job it holds.
Run_finish_KeepCurrent ==
    /\ w_pc = "exec"
    /\ status' = IF jobs = {} THEN "IDLE" ELSE "BUSY"
    /\ w_pc' = "top"
    /\ w_program' = NULL
    /\ UNCHANGED << session, job_id, job, jobs, current_job, stop_thread, joinable, c_pc,
                    l_pc, wait_ret, api_ret, params, session_data, simulator_mutex, ghost >>

\* The backend call returns res; the worker takes the lock again.
Run_finish ==
    /\ w_pc = "exec"
    /\ \E res \in BackendTexts :
         IF current_job # NULL
         THEN /\ job' = [ job EXCEPT ![current_job] =
                            [ status |-> "DONE",
                              results |-> ParseResults(job[current_job].results, res) ] ]
         ELSE UNCHANGED job
    /\ current_job' = NULL
    /\ status' = IF jobs = {} THEN "IDLE" ELSE "BUSY"
    /\ w_pc' = "top"
    /\ w_program' = NULL
    /\ UNCHANGED << session, job_id, jobs, stop_thread, joinable, c_pc, l_pc, wait_ret, api_ret, params, session_data, simulator_mutex,
                    last_started, fifo, cq >>

----------------------------------------------------------------------------
(* Device lifecycle: Start and Stop through device_initialize / device_finalize *)

\* Start without the test of Thread.joinable().
Start_Unconditional ==
    /\ stop_thread' = FALSE
    /\ status' = "IDLE"
    /\ joinable' = TRUE
    /\ w_pc' = "init"

\* MAESTRO_QDMI_Device_State::Start.
Start ==
    IF joinable
    THEN UNCHANGED << stop_thread, status, joinable, w_pc >>
    ELSE /\ stop_thread' = FALSE
         /\ status' = "IDLE"
         /\ joinable' = TRUE
         /\ w_pc' = "init"

device_initialize ==
    /\ l_pc = "idle"
    /\ Start
    /\ UNCHANGED << session, job_id, job, jobs, current_job, w_program, c_pc, l_pc,
                    wait_ret, api_ret, params, session_data, simulator_mutex, ghost >>

\* Stop() up to the release of the lock.
device_finalize ==
    /\ l_pc = "idle"
    /\ IF status # "OFFLINE" /\ joinable
       THEN /\ stop_thread' = TRUE
            /\ l_pc' = "notify"
       ELSE UNCHANGED << stop_thread, l_pc >>
    /\ UNCHANGED << session, status, job_id, job, jobs, current_job, joinable,
                    w_pc, w_program, c_pc, wait_ret, api_ret, params, session_data, simulator_mutex, ghost >>

\* Stop() going on to Join() without the call of Notify().
Stop_notify_NoWake ==
    /\ l_pc = "notify"
    /\ l_pc' = "join"
    /\ UNCHANGED << session, status, job_id, job, jobs, current_job, stop_thread, joinable,
                    w_pc, w_program, c_pc, wait_ret, api_ret, params, session_data,
                    simulator_mutex, ghost >>

\* Notify() in Stop(), after the lock is released.
Stop_notify ==
    /\ l_pc = "notify"
    /\ w_pc' = Notify
    /\ l_pc' = "join"
    /\ UNCHANGED << session, status, job_id, job, jobs, current_job, stop_thread, joinable,
                    w_program, c_pc, wait_ret, api_ret, params, session_data, simulator_mutex, ghost >>

\* Stop() returning after Join() without the write of Offline.
Stop_join_KeepStatus ==
    /\ l_pc = "join"
    /\ w_pc = "exited"
    /\ w_pc' = "none"
    /\ joinable' = FALSE
    /\ l_pc' = "idle"
    /\ UNCHANGED << session, status, job_id, job, jobs, current_job, stop_thread,
                    w_program, c_pc, wait_ret, api_ret, params, session_data, simulator_mutex, ghost >>

\* Stop() from Join() to its return.
Stop_join ==
    /\ l_pc = "join"
    /\ w_pc = "exited"
    /\ w_pc' = "none"
    /\ joinable' = FALSE
    /\ status' = "OFFLINE"
    /\ l_pc' = "idle"
    /\ UNCHANGED << session, job_id, job, jobs, current_job, stop_thread,
                    w_program, c_pc, wait_ret, api_ret, params, session_data, simulator_mutex, ghost >>

----------------------------------------------------------------------------
Next ==
    \/ session_alloc
    \/ session_init
    \/ create_device_job
    \/ \E j \in Jobs : job_submit(j)
    \/ \E j \in Jobs : job_submit_AddJob(j)
    \/ \E j \in Jobs : job_cancel(j)
    \/ \E j \in Jobs : job_cancel_CancelJob(j)
    \/ \E j \in Jobs : job_free(j)
    \/ Run_init
    \/ Run_pop
    \/ Run_block
    \/ Run_spurious
    \/ Run_break
    \/ Run_finish
    \/ device_initialize
    \/ device_finalize
    \/ Stop_notify
    \/ Stop_join

Spec == Init /\ [][Next]_vars

\* The scheduler with callers that also wait for their jobs.
NextWait == Next \/ \E j \in Jobs : job_wait(j)

SpecWait == Init /\ [][NextWait]_vars

----------------------------------------------------------------------------
(* A started device that is never stopped, whose callers only create and    *)
(* submit jobs; the worker thread is scheduled fairly and every backend     *)
(* call returns.  A wake-up by Condition.wait's own spurious return is not  *)
(* something the worker may count on.                                       *)

NextLive ==
    \/ session_alloc
    \/ session_init
    \/ create_device_job
    \/ \E j \in Jobs : job_submit(j)
    \/ \E j \in Jobs : job_submit_AddJob(j)
    \/ Run_init
    \/ Run_pop
    \/ Run_block
    \/ Run_spurious
    \/ Run_finish
    \/ device_initialize

SpecLive ==
    /\ Init
    /\ [][NextLive]_vars
    /\ WF_vars(Run_init \/ Run_pop \/ Run_block \/ Run_finish)

\* The scheduler with its lifecycle, the worker thread scheduled fairly, every
\* backend call returning, and the thread that called Stop() going on.
SpecStop ==
    /\ Init
    /\ [][Next]_vars
    /\ WF_vars(Run_init \/ Run_pop \/ Run_block \/ Run_break \/ Run_finish)
    /\ WF_vars(Stop_notify \/ Stop_join)

----------------------------------------------------------------------------
(* src/maestro_device.cpp: the device file that has no worker thread.  Its  *)
(* sessions, job creation, submit, cancel and free are the ones above (its  *)
(* AddJob has no one to notify); initialize, finalize, check and wait       *)
(* differ.                                                                  *)

stub_device_initialize ==
    /\ status' = "IDLE"
    /\ UNCHANGED << session, job_id, job, jobs, current_job, stop_thread, joinable,
                    w_pc, w_program, c_pc, l_pc, wait_ret, api_ret, params, session_data, simulator_mutex, ghost >>

stub_device_finalize ==
    /\ status' = "OFFLINE"
    /\ UNCHANGED << session, job_id, job, jobs, current_job, stop_thread, joinable,
                    w_pc, w_program, c_pc, l_pc, wait_ret, api_ret, params, session_data, simulator_mutex, ghost >>

stub_job_check(j) ==
    /\ j \in Live /\ c_pc[j] = "idle"
    /\ \E bit \in BOOLEAN :
         IF job[j].status = "RUNNING" /\ bit
         THEN /\ status' = "IDLE"
              /\ job' = [ job EXCEPT ![j].status = "DONE" ]
         ELSE UNCHANGED << status, job >>
    /\ UNCHANGED << session, job_id, jobs, current_job, stop_thread, joinable,
                    w_pc, w_program, c_pc, l_pc, wait_ret, api_ret, params, session_data, simulator_mutex, ghost >>

stub_job_wait(j) ==
    /\ j \in Live /\ c_pc[j] = "idle"
    /\ job' = [ job EXCEPT ![j].status = "DONE" ]
    /\ status' = "IDLE"
    /\ wait_ret' = << j, "SUCCESS" >>
    /\ UNCHANGED << session, job_id, jobs, current_job, stop_thread, joinable,
                    w_pc, w_program, c_pc, l_pc, ghost, api_ret, params, session_data, simulator_mutex >>

NextStub ==
    \/ session_alloc
    \/ session_init
    \/ create_device_job
    \/ \E j \in Jobs : job_submit(j)
    \/ \E j \in Jobs : job_submit_AddJob(j)
    \/ \E j \in Jobs : job_cancel(j)
    \/ \E j \in Jobs : job_cancel_CancelJob(j)
    \/ \E j \in Jobs : job_free(j)
    \/ \E j \in Jobs : stub_job_check(j)
    \/ \E j \in Jobs : stub_job_wait(j)
    \/ stub_device_initialize
    \/ stub_device_finalize

SpecStub == Init /\ [][NextStub]_vars

----------------------------------------------------------------------------
(* The calls whose return values the callers see.  api_ret records the call  *)
(* that returned last: << call, job, return code, what it wrote >>.          *)

\* MAESTRO_QDMI_device_job_check that completes a Running job at random.
job_check_Completing(j) ==
    /\ j \in Live /\ c_pc[j] = "idle"
    /\ \E bit \in BOOLEAN :
         IF job[j].status = "RUNNING" /\ bit
         THEN /\ status' = "IDLE"
              /\ job' = [ job EXCEPT ![j].status = "DONE" ]
              /\ api_ret' = << "check", j, "SUCCESS", << "DONE" >> >>
         ELSE /\ api_ret' = << "check", j, "SUCCESS", << job[j].status >> >>
              /\ UNCHANGED << status, job >>
    /\ UNCHANGED << session, job_id, jobs, current_job, stop_thread, joinable,
                    w_pc, w_program, c_pc, l_pc, wait_ret, params, session_data, simulator_mutex, ghost >>

job_check(j) ==
    /\ j \in Live /\ c_pc[j] = "idle"
    /\ \E status_ptr \in { "nullptr", "ptr" } :
         api_ret' = IF status_ptr = "nullptr"
                    THEN << "check", j, "INVALIDARGUMENT", << >> >>
                    ELSE << "check", j, "SUCCESS", << job[j].status >> >>
    /\ UNCHANGED << session, job_id, job, sched, c_pc, l_pc, wait_ret, params, session_data, simulator_mutex, ghost >>

\* A started device that is never finalized, with callers that create, submit,
\* cancel and free jobs.
NextRun ==
    \/ session_alloc
    \/ session_init
    \/ create_device_job
    \/ \E j \in Jobs : job_submit(j)
    \/ \E j \in Jobs : job_submit_AddJob(j)
    \/ \E j \in Jobs : job_cancel(j)
    \/ \E j \in Jobs : job_cancel_CancelJob(j)
    \/ \E j \in Jobs : job_free(j)
    \/ Run_init
    \/ Run_pop
    \/ Run_block
    \/ Run_spurious
    \/ Run_finish
    \/ device_initialize

NextCheck == NextRun \/ \E j \in Jobs : job_check(j)

SpecCheck == Init /\ [][NextCheck]_vars

----------------------------------------------------------------------------
(* MAESTRO_QDMI_device_job_get_results and the histogram read-out *)

\* operator< of std::string on bitstrings.
RECURSIVE LexLess(_, _)
LexLess(a, b) ==
    IF b = << >> THEN FALSE
    ELSE IF a = << >> THEN TRUE
    ELSE IF a[1] # b[1] THEN DigitVal(a[1]) < DigitVal(b[1])
    ELSE LexLess(Tail(a), Tail(b))

\* The entries iterated from the greatest key down.
RECURSIVE InOrder_Descending(_)
InOrder_Descending(h) ==
    IF h = {} THEN << >>
    ELSE LET last == CHOOSE e \in h : \A f \in h : f = e \/ LexLess(f[1], e[1])
         IN  << last >> \o InOrder_Descending(h \ { last })

\* The entries of the std::map in iteration order.
RECURSIVE InOrder(_)
InOrder(h) ==
    IF h = {} THEN << >>
    ELSE LET first == CHOOSE e \in h : \A f \in h : f = e \/ LexLess(e[1], f[1])
         IN  << first >> \o InOrder(h \ { first })

\* The bytes std::copy and the ',' write for the entries es from offset off on:
\* a set of << offset, byte >> pairs.
RECURSIVE CopyKeys(_, _)
CopyKeys(es, off) ==
    IF es = << >> THEN {}
    ELSE LET key == es[1][1]
         IN  { << off + i - 1, key[i] >> : i \in 1 .. Len(key) }
               \cup { << off + Len(key), "," >> }
               \cup CopyKeys(Tail(es), off + Len(key) + 1)

RECURSIVE KeysEnd(_, _)
KeysEnd(es, off) ==
    IF es = << >> THEN off ELSE KeysEnd(Tail(es), off + Len(es[1][1]) + 1)

\* MAESTRO_QDMI_device_job_get_results_hist: << return code, << the value
\* stored in *size_ret (NULL when nothing is stored), the writes to data >> >>.
get_results_hist(hist, result, size, data, size_ret) ==
    LET es == InOrder(hist)
        req_size == IF result = "HIST_KEYS"
                    THEN Len(es) * ((IF es = << >> THEN 0 ELSE Len(es[1][1])) + 1)
                    ELSE Len(es) * 8
        stored == IF size_ret = "nullptr" THEN NULL ELSE req_size
    IN  IF data = "nullptr" THEN << "SUCCESS", << stored, {} >> >>
        ELSE IF size < req_size THEN << "INVALIDARGUMENT", << stored, {} >> >>
        ELSE IF result = "HIST_KEYS"
        THEN << "SUCCESS",
                << stored, Put(CopyKeys(es, 0), KeysEnd(es, 0) - 1, "NUL") >> >>
        ELSE << "SUCCESS",
                << stored, { << i - 1, es[i][2] >> : i \in 1 .. Len(es) } >> >>

\* Buffer sizes the callers pass.
Sizes == { 0, 2, 3, 8 }

ResultKinds == { "HIST_KEYS", "HIST_VALUES", "PROBABILITIES", "MAX" }

\* MAESTRO_QDMI_device_job_get_results on a job with status st and results
\* hist: << return code, << *size_ret, the writes to data >> >>.
get_results(st, hist, result, size, data, size_ret) ==
    IF \/ st # "DONE"
       \/ (data # "nullptr" /\ size = 0)
       \/ result = "MAX"
    THEN << "INVALIDARGUMENT", << NULL, {} >> >>
    ELSE IF result \in { "HIST_KEYS", "HIST_VALUES" }
    THEN get_results_hist(hist, result, size, data, size_ret)
    ELSE << "NOTSUPPORTED", << NULL, {} >> >>

job_get_results(j) ==
    /\ j \in Live /\ c_pc[j] = "idle"
    /\ \E result \in ResultKinds, size \in Sizes,
          data \in { "nullptr", "buffer" }, size_ret \in { "nullptr", "ptr" } :
         LET r == get_results(job[j].status, job[j].results, result, size, data, size_ret)
         IN  api_ret' = << "get_results", j, r[1], r[2] >>
    /\ UNCHANGED << session, job_id, job, sched, c_pc, l_pc, wait_ret, params, session_data, simulator_mutex, ghost >>

NextResults == NextRun \/ \E j \in Jobs : job_get_results(j)

SpecResults == Init /\ [][NextResults]_vars

----------------------------------------------------------------------------
(* MAESTRO_QDMI_device_job_set_parameter *)

\* Number of job fields the callers change from their defaults, over all jobs.
MaxSets == 1

JobParameters ==
    { "PROGRAMFORMAT", "PROGRAM", "SHOTSNUM", "CUSTOM1", "CUSTOM2", "CUSTOM3", "CUSTOM4",
      "CUSTOM5", "MAX" }

ProgramFormats == { "QASM2", "QIRBASESTRING", "FORMAT_MAX" }

\* The field a size_t parameter is stored in.
FieldOf(param) ==
    CASE param = "SHOTSNUM" -> "num_shots"
      [] param = "CUSTOM1"  -> "qubits_num"
      [] param = "CUSTOM2"  -> "simType"
      [] param = "CUSTOM3"  -> "simExecType"
      [] param = "CUSTOM4"  -> "maxBondDim"

\* The state test with the guard of submit and cancel.
Settable_UntilDone(st) == st # "DONE"

\* The state in which set_parameter goes on to its switch.
Settable(st) == st = "CREATED"

\* << return code, the job's fields afterwards >> for a call with the parameter
\* param, a value pointer that is null or not, and size bytes behind it: the
\* format fmt, the program text, or the number 2.
set_parameter_result(p, st, param, null, size, fmt) ==
    IF (~null /\ size = 0) \/ param = "MAX" THEN << "INVALIDARGUMENT", p >>
    ELSE IF ~Settable(st) THEN << "BADSTATE", p >>
    ELSE IF param = "PROGRAMFORMAT" THEN
        IF null THEN << "SUCCESS", p >>
        ELSE IF fmt = "FORMAT_MAX" THEN << "INVALIDARGUMENT", p >>
        ELSE IF fmt # "QASM2" THEN << "NOTSUPPORTED", p >>
        ELSE << "SUCCESS", [ p EXCEPT !.format = fmt ] >>
    ELSE IF param = "PROGRAM" THEN
        IF null THEN << "SUCCESS", p >>
        ELSE << "SUCCESS", [ p EXCEPT !.program = "qasm" ] >>
    ELSE IF param \in { "SHOTSNUM", "CUSTOM1", "CUSTOM2", "CUSTOM3", "CUSTOM4" } THEN
        IF ~null /\ size = 8
        THEN << "SUCCESS", [ p EXCEPT ![FieldOf(param)] = 2 ] >>
        ELSE << "SUCCESS", p >>
    ELSE << "NOTSUPPORTED", p >>

Changed ==
    Cardinality({ jf \in Jobs \X DOMAIN JobDefaults : params[jf[1]][jf[2]] # JobDefaults[jf[2]] })

job_set_parameter(j) ==
    /\ j \in Live /\ c_pc[j] = "idle"
    /\ \E param \in JobParameters, null \in BOOLEAN, size \in { 0, 4, 8 } :
       \E fmt \in (IF param = "PROGRAMFORMAT" /\ ~null THEN ProgramFormats ELSE { "QASM2" }) :
         LET r == set_parameter_result(params[j], job[j].status, param, null, size, fmt)
             valid == ~((~null /\ size = 0) \/ param = "MAX")
         IN  /\ (r[2] # params[j] /\ r[2] # JobDefaults) => Changed < MaxSets
             /\ params' = [ params EXCEPT ![j] = r[2] ]
             /\ api_ret' = << "set_parameter", j, r[1], << valid >> >>
    /\ UNCHANGED << session, job_id, job, sched, c_pc, l_pc, wait_ret, session_data, simulator_mutex, ghost >>

\* A started device that is never finalized, with callers that create jobs, set
\* their parameters and submit them.
NextParams ==
    \/ session_alloc
    \/ session_init
    \/ create_device_job
    \/ \E j \in Jobs : job_set_parameter(j)
    \/ \E j \in Jobs : job_submit(j)
    \/ \E j \in Jobs : job_submit_AddJob(j)
    \/ Run_init
    \/ Run_pop
    \/ Run_block
    \/ Run_spurious
    \/ Run_finish
    \/ device_initialize

SpecParams == Init /\ [][NextParams]_vars

----------------------------------------------------------------------------
(* submit and cancel as their callers see them: the status test of the call  *)
(* with its return code recorded, together with the status it read.         *)

job_submit_call(j) ==
    /\ j \in Live /\ c_pc[j] = "idle"
    /\ IF job[j].status = "DONE"
       THEN /\ api_ret' = << "submit", j, "INVALIDARGUMENT", << job[j].status >> >>
            /\ UNCHANGED c_pc
       ELSE /\ api_ret' = << "submit", j, "SUCCESS", << job[j].status >> >>
            /\ c_pc' = [ c_pc EXCEPT ![j] = "submit" ]
    /\ UNCHANGED << session, job_id, job, sched, l_pc, wait_ret, params, session_data, simulator_mutex, ghost >>

job_cancel_call(j) ==
    /\ j \in Live /\ c_pc[j] = "idle"
    /\ IF job[j].status = "DONE"
       THEN /\ api_ret' = << "cancel", j, "INVALIDARGUMENT", << job[j].status >> >>
            /\ UNCHANGED c_pc
       ELSE /\ api_ret' = << "cancel", j, "SUCCESS", << job[j].status >> >>
            /\ c_pc' = [ c_pc EXCEPT ![j] = "cancel" ]
    /\ UNCHANGED << session, job_id, job, sched, l_pc, wait_ret, params, session_data, simulator_mutex, ghost >>

\* A started device that is never finalized, with callers that create, submit,
\* cancel and check jobs and see what each call returns.
NextCalls ==
    \/ session_alloc
    \/ session_init
    \/ create_device_job
    \/ \E j \in Jobs : job_submit_call(j)
    \/ \E j \in Jobs : job_submit_AddJob(j)
    \/ \E j \in Jobs : job_cancel_call(j)
    \/ \E j \in Jobs : job_cancel_CancelJob(j)
    \/ \E j \in Jobs : job_check(j)
    \/ Run_init
    \/ Run_pop
    \/ Run_block
    \/ Run_spurious
    \/ Run_finish
    \/ device_initialize

SpecCalls == Init /\ [][NextCalls]_vars

----------------------------------------------------------------------------
(* The device status as a caller reads it, on a started device that is      *)
(* never finalized and whose callers submit, cancel, wait for and check     *)
(* their jobs.                                                              *)

\* MAESTRO_QDMI_get_device_status: one read of status under simulator_mutex.
get_device_status ==
    /\ api_ret' = << "device_status", NULL, "SUCCESS", << status >> >>
    /\ UNCHANGED << session, job_id, job, sched, c_pc, l_pc, wait_ret, params, session_data, simulator_mutex, ghost >>

NextQuery ==
    \/ session_alloc
    \/ session_init
    \/ create_device_job
    \/ \E j \in Jobs : job_submit(j)
    \/ \E j \in Jobs : job_submit_AddJob(j)
    \/ \E j \in Jobs : job_cancel(j)
    \/ \E j \in Jobs : job_cancel_CancelJob(j)
    \/ \E j \in Jobs : job_wait(j)
    \/ \E j \in Jobs : job_check(j)
    \/ get_device_status
    \/ Run_init
    \/ Run_pop
    \/ Run_block
    \/ Run_spurious
    \/ Run_finish
    \/ device_initialize

SpecQuery == Init /\ [][NextQuery]_vars

----------------------------------------------------------------------------
(* The device lifecycle as its caller sees it: device_initialize is Start   *)
(* followed by a read of the status that decides the return code, and the   *)
(* worker thread loads the backend in between or afterwards.                *)

\* state->Start();
device_initialize_Start ==
    /\ l_pc = "idle"
    /\ Start
    /\ l_pc' = "initialize"
    /\ UNCHANGED << session, job_id, job, jobs, current_job, w_program, c_pc,
                    wait_ret, api_ret, params, session_data, simulator_mutex, ghost >>

\* return state->status != OFFLINE ? SUCCESS : BADSTATE;
device_initialize_return ==
    /\ l_pc = "initialize"
    /\ api_ret' = << "initialize", NULL,
                     IF status # "OFFLINE" THEN "SUCCESS" ELSE "BADSTATE", << >> >>
    /\ l_pc' = "idle"
    /\ UNCHANGED << session, job_id, job, sched, c_pc, wait_ret, params, session_data, simulator_mutex, ghost >>

NextLife ==
    \/ session_alloc
    \/ session_init
    \/ create_device_job
    \/ \E j \in Jobs : job_submit(j)
    \/ \E j \in Jobs : job_submit_AddJob(j)
    \/ device_initialize_Start
    \/ device_initialize_return
    \/ device_finalize
    \/ Stop_notify
    \/ Stop_join
    \/ Run_init
    \/ Run_pop
    \/ Run_block
    \/ Run_spurious
    \/ Run_break
    \/ Run_finish

SpecLife == Init /\ [][NextLife]_vars

----------------------------------------------------------------------------
(* The result read-out on its own: a job that the worker has completed,     *)
(* holding any histogram of at most MaxKeys bitstrings, read with every     *)
(* buffer size up to the largest size such a histogram needs.               *)

MaxKeys == 2

\* Bitstrings the backend reports as keys, and counts.
Bitstrings == { << "0" >>, << "1" >>, << "0", "1" >>, << "1", "0" >>, << "1", "1" >> }
Counts == { 1, 3 }

\* The values of job->results: one count per bitstring.
Histograms ==
    { h \in SUBSET (Bitstrings \X Counts) :
        /\ Cardinality(h) <= MaxKeys
        /\ \A e, f \in h : e[1] = f[1] => e = f }

BufferSizes == 0 .. (MaxKeys * 8)

\* One job, created, submitted and run to Done by the worker of a started device.
InitHist ==
    /\ session = "INITIALIZED"
    /\ status = "IDLE"
    /\ job_id = 1
    /\ \E h \in Histograms : job = (0 :> [ status |-> "DONE", results |-> h ])
    /\ jobs = {}
    /\ current_job = NULL
    /\ stop_thread = FALSE
    /\ joinable = TRUE
    /\ w_pc = "blocked"
    /\ w_program = NULL
    /\ c_pc = [ j \in Jobs |-> "idle" ]
    /\ l_pc = "idle"
    /\ wait_ret = << NULL, "NONE" >>
    /\ last_started = 0
    /\ fifo = << >>
    /\ cq = NULL
    /\ api_ret = << "none", NULL, "NONE", << >> >>
    /\ params = [ j \in Jobs |-> JobDefaults ]
    /\ session_data = SessionDefaults
    /\ simulator_mutex = "free"

job_get_results_sized(j) ==
    /\ j \in Live /\ c_pc[j] = "idle"
    /\ \E result \in ResultKinds, size \in BufferSizes,
          data \in { "nullptr", "buffer" }, size_ret \in { "nullptr", "ptr" } :
         LET r == get_results(job[j].status, job[j].results, result, size, data, size_ret)
         IN  api_ret' = << "get_results", j, r[1], r[2] >>
    /\ UNCHANGED << session, job_id, job, sched, c_pc, l_pc, wait_ret, params, session_data, simulator_mutex, ghost >>

NextHist == \E j \in Jobs : job_get_results_sized(j)

SpecHist == InitHist /\ [][NextHist]_vars

----------------------------------------------------------------------------
(* MAESTRO_QDMI_device_session_set_parameter *)

SessionParameters ==
    { "BASEURL", "TOKEN", "CUSTOM1", "CUSTOM2", "CUSTOM3", "CUSTOM4", "CUSTOM5", "MAX" }

\* The session field a numeric parameter is stored in.
SessionFieldOf(param) ==
    CASE param = "CUSTOM1" -> "qubits_num"
      [] param = "CUSTOM2" -> "simType"
      [] param = "CUSTOM3" -> "simExecType"
      [] param = "CUSTOM4" -> "maxBondDim"

\* The state test passing for every session.
SessionSettable_Always(st) == TRUE

\* The state test: parameters are set on an Allocated session only.
SessionSettable(st) == st = "ALLOCATED"

\* << return code, the session's fields afterwards >> for a call on a session
\* with fields sd and status st; null says value == nullptr.
session_set_parameter_result(sd, st, param, null, size) ==
    IF (~null /\ size = 0) \/ param = "MAX" THEN << "INVALIDARGUMENT", sd >>
    ELSE IF ~SessionSettable(st) THEN << "BADSTATE", sd >>
    ELSE IF param \notin { "TOKEN", "CUSTOM1", "CUSTOM2", "CUSTOM3", "CUSTOM4" }
    THEN << "NOTSUPPORTED", sd >>
    ELSE IF null THEN << "SUCCESS", sd >>
    ELSE IF param = "TOKEN" THEN << "SUCCESS", [ sd EXCEPT !.token = "tok" ] >>
    ELSE IF size = 8 THEN << "SUCCESS", [ sd EXCEPT ![SessionFieldOf(param)] = 2 ] >>
    ELSE << "SUCCESS", sd >>

session_set_parameter ==
    /\ session # "NONE"
    /\ \E param \in SessionParameters, null \in BOOLEAN, size \in { 0, 4, 8 } :
         LET r == session_set_parameter_result(session_data, session, param, null, size)
             valid == ~((~null /\ size = 0) \/ param = "MAX")
         IN  /\ session_data' = r[2]
             /\ api_ret' = << "session_set_parameter", NULL, r[1], << valid, param >> >>
    /\ UNCHANGED << session, job_id, job, sched, c_pc, l_pc, wait_ret, params,
                    simulator_mutex, ghost >>

\* A device that is started, and a session that is allocated, configured and
\* initialized and creates jobs.
NextSession ==
    \/ session_alloc
    \/ session_set_parameter
    \/ session_init
    \/ create_device_job
    \/ device_initialize
    \/ Run_init
    \/ Run_block
    \/ Run_spurious

SpecSession == Init /\ [][NextSession]_vars

----------------------------------------------------------------------------
(* MAESTRO_QDMI_device_job_query_property *)

JobProperties ==
    { "ID", "PROGRAMFORMAT", "SHOTSNUM", "CUSTOM1", "CUSTOM2", "CUSTOM3", "CUSTOM4",
      "CUSTOM5", "MAX" }

\* Sizes in bytes of the values the callers pass: none, an int, a size_t.
ValueSizes == { 0, 4, 8 }

\* ADD_SINGLE_VALUE_PROPERTY and ADD_STRING_PROPERTY: << return code, the value
\* written to *value (NULL when none), the size stored in *size_ret (NULL when
\* none) >> for a property of width bytes holding v.
add_property(v, width, size, null, size_ret) ==
    IF ~null /\ size < width THEN << "INVALIDARGUMENT", NULL, NULL >>
    ELSE << "SUCCESS", IF null THEN NULL ELSE v,
            IF size_ret = "nullptr" THEN NULL ELSE width >>

\* The enumerators of QDMI_Program_Format as numbers, in the enum's order.
FormatNumber(f) ==
    CASE f = "QASM2" -> 0
      [] f = "QIRBASESTRING" -> 1
      [] f = "FORMAT_MAX" -> 2

\* The result of query_property on job j with fields p; the id is a one-digit
\* string with its terminator, the format an enum, the other fields size_t.
query_property_result(j, p, prop, size, null, size_ret) ==
    IF (~null /\ size = 0) \/ prop = "MAX" THEN << "INVALIDARGUMENT", NULL, NULL >>
    ELSE IF prop = "ID" THEN add_property(j, 2, size, null, size_ret)
    ELSE IF prop = "PROGRAMFORMAT" THEN add_property(FormatNumber(p.format), 4, size, null, size_ret)
    ELSE IF prop \in { "SHOTSNUM", "CUSTOM1", "CUSTOM2", "CUSTOM3", "CUSTOM4" }
    THEN add_property(p[FieldOf(prop)], 8, size, null, size_ret)
    ELSE << "NOTSUPPORTED", NULL, NULL >>

job_query_property(j) ==
    /\ j \in Live /\ c_pc[j] = "idle"
    /\ \E prop \in JobProperties, size \in ValueSizes, null \in BOOLEAN,
          size_ret \in { "nullptr", "ptr" } :
         LET r == query_property_result(j, params[j], prop, size, null, size_ret)
         IN  api_ret' = << "query_property", j, r[1], << prop, r[2], r[3] >> >>
    /\ UNCHANGED << session, job_id, job, sched, c_pc, l_pc, wait_ret, params,
                    session_data, simulator_mutex, ghost >>

\* A started device whose callers create jobs, set their parameters and query
\* their properties.
NextProps ==
    \/ session_alloc
    \/ session_init
    \/ create_device_job
    \/ \E j \in Jobs : job_set_parameter(j)
    \/ \E j \in Jobs : job_query_property(j)
    \/ device_initialize
    \/ Run_init
    \/ Run_block
    \/ Run_spurious

SpecProps == Init /\ [][NextProps]_vars

----------------------------------------------------------------------------
(* The worker's critical sections made explicit: Run() takes a job and      *)
(* copies what it needs under simulator_mutex, releases the mutex, calls    *)
(* the backend, and takes the mutex again for the completion.  AddJob,      *)
(* CancelJob and the device-status query take the same mutex.               *)

\* The while loop's first part, up to the copies of the job's fields.
Run_take ==
    /\ w_pc = "top"
    /\ simulator_mutex = "free"
    /\ jobs # {} /\ ~stop_thread
    /\ LET j == Pick(jobs) IN
         /\ status' = "BUSY"
         /\ current_job' = j
         /\ jobs' = jobs \ { j }
         /\ job' = [ job EXCEPT ![j].status = "RUNNING" ]
         /\ w_program' = j
         /\ last_started' = j
         /\ fifo' = Remove(fifo, j)
    /\ w_pc' = "copied"
    /\ simulator_mutex' = "worker"
    /\ UNCHANGED << session, job_id, stop_thread, joinable, c_pc, l_pc, wait_ret, api_ret,
                    params, session_data, cq >>

\* The backend call entered with the mutex still held.
Run_unlock_AfterCall ==
    /\ w_pc = "copied"
    /\ w_pc' = "exec"
    /\ UNCHANGED << session, status, job_id, job, jobs, current_job, stop_thread, joinable,
                    w_program, c_pc, l_pc, wait_ret, api_ret, params, session_data,
                    simulator_mutex, ghost >>

\* lock.unlock(); then the backend call is entered.
Run_unlock ==
    /\ w_pc = "copied"
    /\ w_pc' = "exec"
    /\ simulator_mutex' = "free"
    /\ UNCHANGED << session, status, job_id, job, jobs, current_job, stop_thread, joinable,
                    w_program, c_pc, l_pc, wait_ret, api_ret, params, session_data, ghost >>

\* A caller's step that needs simulator_mutex can be taken.
MutexFree == simulator_mutex = "free"

\* std::lock_guard lock(simulator_mutex) at the head of AddJob.
AddJob_locked(j) == MutexFree /\ job_submit_AddJob(j)

\* std::lock_guard lock(simulator_mutex) at the head of CancelJob.
CancelJob_locked(j) == MutexFree /\ job_cancel_CancelJob(j)

\* The device-status query reads the status.
get_device_status_locked == MutexFree /\ get_device_status

\* lock.lock() after the backend call, then the completion.
Run_finish_locked == MutexFree /\ Run_finish

NextMutex ==
    \/ session_alloc
    \/ session_init
    \/ create_device_job
    \/ \E j \in Jobs : job_submit(j)
    \/ \E j \in Jobs : AddJob_locked(j)
    \/ \E j \in Jobs : job_cancel(j)
    \/ \E j \in Jobs : CancelJob_locked(j)
    \/ \E j \in Jobs : job_check(j)
    \/ get_device_status_locked
    \/ Run_init
    \/ Run_take
    \/ Run_unlock
    \/ Run_block
    \/ Run_spurious
    \/ Run_finish_locked
    \/ device_initialize

SpecMutex == Init /\ [][NextMutex]_vars

----------------------------------------------------------------------------
(* Result texts whose counts section is missing or malformed *)

\* A counts object that is not closed, and a count that is not a number.
TextUnterminated == << "{" >> \o Marker \o << " ", "{", Quote, "1", "1", Quote, ":", " ", "3" >>
TextBadValue     == << "{" >> \o Marker \o << " ", "{", Quote, "1", "1", Quote, ":", " ", "x", "}", "}" >>

MalformedTexts == { TextError, TextUnterminated, TextBadValue }

ResultTexts == BackendTexts \cup MalformedTexts

\* std::stoull throws std::invalid_argument when the value does not start with
\* a digit (after an optional sign).
StoullThrows(v) ==
    LET digits == { Digits[i] : i \in 1 .. 10 }
        w == IF v # << >> /\ v[1] \in { "+", "-" } THEN Tail(v) ELSE v
    IN  w = << >> \/ w[1] \notin digits

\* Whether the while loop of ParseResults from position p reaches a std::stoull
\* that throws.
RECURSIVE ParseLoopThrows(_, _, _)
ParseLoopThrows(res, p, key) ==
    IF p > Len(res) \/ res[p] = "}" THEN FALSE
    ELSE IF res[p] = Quote THEN
        LET e == ScanTo(res, p + 1, { Quote })
        IN  ParseLoopThrows(res, e + 1, SubSeq(res, p + 1, e - 1))
    ELSE IF res[p] = ":" THEN
        LET b == SkipOver(res, p + 1, { " ", "\n" })
            e == ScanTo(res, b, { ",", "}", "\n", " " })
            value == SubSeq(res, b, e - 1)
        IN  IF key # << >> /\ value # << >> /\ StoullThrows(value)
            THEN TRUE
            ELSE ParseLoopThrows(res, e, key)
    ELSE ParseLoopThrows(res, p + 1, key)

\* ParseResults(res) leaves by an exception.
ParseThrows(res) ==
    /\ Find(res) # 0
    /\ ParseLoopThrows(res, ScanTo(res, Find(res) + Len(Marker), { "{" }) + 1, << >>)

\* Every text's outcome, evaluated once: whether parsing throws and, when it
\* does not, the histogram parsed ({} standing for "results left as they are"
\* when the marker is absent).
ParsedText ==
    [ res \in ResultTexts |->
        IF ParseThrows(res) THEN [ throws |-> TRUE, hist |-> {} ]
        ELSE [ throws |-> FALSE, hist |-> IF Find(res) = 0 THEN {} ELSE ParseCounts(res) ] ]

\* The completion of a run whose backend call returned res.  An exception that
\* leaves ParseResults is caught nowhere in Run(), the body of the worker
\* thread: std::terminate ends the process, and every caller with it.
Run_finish_text ==
    /\ w_pc = "exec"
    /\ \E res \in ResultTexts :
         /\ api_ret' = << "SimpleExecute", w_program, "RETURNED", res >>
         /\ IF current_job # NULL /\ ParsedText[res].throws
            THEN /\ w_pc' = "terminated"
                 /\ l_pc' = "terminated"
                 /\ c_pc' = [ j \in Jobs |-> "terminated" ]
                 /\ session' = "TERMINATED"
                 /\ UNCHANGED << job, current_job, status, w_program >>
            ELSE /\ IF current_job # NULL
                    THEN job' = [ job EXCEPT ![current_job] =
                                    [ status |-> "DONE",
                                      results |-> IF Find(res) = 0
                                                  THEN job[current_job].results
                                                  ELSE ParsedText[res].hist ] ]
                    ELSE UNCHANGED job
                 /\ current_job' = NULL
                 /\ status' = IF jobs = {} THEN "IDLE" ELSE "BUSY"
                 /\ w_pc' = "top"
                 /\ w_program' = NULL
                 /\ UNCHANGED << session, l_pc, c_pc >>
    /\ UNCHANGED << job_id, jobs, stop_thread, joinable, wait_ret, params,
                    session_data, simulator_mutex, last_started, fifo, cq >>

NextText ==
    \/ session_alloc
    \/ session_init
    \/ create_device_job
    \/ \E j \in Jobs : job_submit(j)
    \/ \E j \in Jobs : job_submit_AddJob(j)
    \/ \E j \in Jobs : job_cancel(j)
    \/ \E j \in Jobs : job_cancel_CancelJob(j)
    \/ \E j \in Jobs : job_free(j)
    \/ Run_init
    \/ Run_pop
    \/ Run_block
    \/ Run_spurious
    \/ Run_finish_text
    \/ device_initialize

SpecText == Init /\ [][NextText]_vars

----------------------------------------------------------------------------
(* Jobs submitted without a program *)

\* The process ended by std::terminate or by a fault: the worker and every
\* caller with it.
ProcessEnds ==
    /\ w_pc' = "terminated"
    /\ l_pc' = "terminated"
    /\ c_pc' = [ j \in Jobs |-> "terminated" ]
    /\ session' = "TERMINATED"
    /\ UNCHANGED << status, job_id, job, jobs, current_job, stop_thread, joinable, w_program,
                    wait_ret, api_ret, params, session_data, simulator_mutex, ghost >>

\* The while loop taking the first job of the map and copying its fields.
\* const std::string program = current_job->program constructs a string from
\* the job's char*; from the null pointer of a job whose program was never set
\* this is undefined: the constructor throws std::logic_error or reads through
\* the null pointer, either ending the process, or yields an empty string.
Run_pop_program ==
    /\ w_pc = "top"
    /\ jobs # {} /\ ~stop_thread
    /\ \/ Run_pop
       \/ params[Pick(jobs)].program = "nullptr" /\ ProcessEnds

\* The completion of a run whose program is empty: no backend call, and the
\* empty result text is parsed.
Run_finish_empty ==
    /\ w_pc = "exec"
    /\ IF current_job # NULL
       THEN job' = [ job EXCEPT ![current_job] =
                       [ status |-> "DONE",
                         results |-> ParseResults(job[current_job].results, << >>) ] ]
       ELSE UNCHANGED job
    /\ current_job' = NULL
    /\ status' = IF jobs = {} THEN "IDLE" ELSE "BUSY"
    /\ w_pc' = "top"
    /\ w_program' = NULL
    /\ UNCHANGED << session, job_id, jobs, stop_thread, joinable, c_pc, l_pc, wait_ret,
                    api_ret, params, session_data, simulator_mutex, ghost >>

\* if (!program.empty()) the backend is called.
Run_finish_program ==
    /\ w_pc = "exec"
    /\ IF params[w_program].program = "nullptr" THEN Run_finish_empty ELSE Run_finish

\* A started device that is never finalized, with callers that create jobs, set
\* their parameters or not, and submit them.
NextProgram ==
    \/ session_alloc
    \/ session_init
    \/ create_device_job
    \/ \E j \in Jobs : job_set_parameter(j)
    \/ \E j \in Jobs : job_submit(j)
    \/ \E j \in Jobs : job_submit_AddJob(j)
    \/ Run_init
    \/ Run_pop_program
    \/ Run_block
    \/ Run_spurious
    \/ Run_finish_program
    \/ device_initialize

SpecProgram == Init /\ [][NextProgram]_vars

----------------------------------------------------------------------------
(* MAESTRO_QDMI_device_job_wait step by step: the caller's reads of the      *)
(* status, WaitForJobFinish with its predicate evaluated under MutexWaiting, *)
(* and the worker's notify_all after the completion.                        *)

\* MutexWaiting is held by a waiter from the evaluation of its predicate to
\* its blocking in wait_for.
MutexWaitingFree == \A k \in Jobs : c_pc[k] # "wait_checked"

\* The while test of job_wait on entry: a Done job or a zero timeout returns
\* at once, otherwise WaitForJobFinish is called.
wait_enter(j) ==
    /\ j \in Live /\ c_pc[j] = "idle"
    /\ \E timeout \in { 0, 1 } :
         IF job[j].status = "DONE" \/ timeout = 0
         THEN /\ wait_ret' = << j, job_wait_result(job[j].status) >>
              /\ UNCHANGED c_pc
         ELSE /\ c_pc' = [ c_pc EXCEPT ![j] = "wait_lock" ]
              /\ UNCHANGED wait_ret
    /\ UNCHANGED << session, job_id, job, sched, l_pc, ghost, api_ret, params, session_data,
                    simulator_mutex >>

\* wait_for evaluates the predicate with MutexWaiting held, on entry and after
\* a wake-up: a Done job makes it return, and job_wait with it.
wait_check(j) ==
    /\ j \in Live /\ c_pc[j] \in { "wait_lock", "wait_woken" }
    /\ MutexWaitingFree
    /\ IF job[j].status = "DONE"
       THEN /\ c_pc' = [ c_pc EXCEPT ![j] = "idle" ]
            /\ wait_ret' = << j, "SUCCESS" >>
       ELSE /\ c_pc' = [ c_pc EXCEPT ![j] = "wait_checked" ]
            /\ UNCHANGED wait_ret
    /\ UNCHANGED << session, job_id, job, sched, l_pc, ghost, api_ret, params, session_data,
                    simulator_mutex >>

\* The predicate was false: wait_for releases MutexWaiting and blocks.
wait_block(j) ==
    /\ c_pc[j] = "wait_checked"
    /\ c_pc' = [ c_pc EXCEPT ![j] = "wait_asleep" ]
    /\ UNCHANGED << session, job_id, job, sched, l_pc, wait_ret, ghost, api_ret, params,
                    session_data, simulator_mutex >>

\* The timeout of wait_for expires: job_wait returns by its last read of the status.
wait_timeout(j) ==
    /\ j \in Live /\ c_pc[j] = "wait_asleep"
    /\ c_pc' = [ c_pc EXCEPT ![j] = "idle" ]
    /\ wait_ret' = << j, job_wait_result(job[j].status) >>
    /\ UNCHANGED << session, job_id, job, sched, l_pc, ghost, api_ret, params, session_data,
                    simulator_mutex >>

\* The completion of a run up to the release of simulator_mutex.
Run_finish_unlock ==
    /\ w_pc = "exec"
    /\ \E res \in BackendTexts :
         IF current_job # NULL
         THEN /\ job' = [ job EXCEPT ![current_job] =
                            [ status |-> "DONE",
                              results |-> ParseResults(job[current_job].results, res) ] ]
         ELSE UNCHANGED job
    /\ current_job' = NULL
    /\ status' = IF jobs = {} THEN "IDLE" ELSE "BUSY"
    /\ w_pc' = "notify"
    /\ w_program' = NULL
    /\ UNCHANGED << session, job_id, jobs, stop_thread, joinable, c_pc, l_pc, wait_ret,
                    api_ret, params, session_data, simulator_mutex, ghost >>

\* ConditionWaiting.notify_all(), called with neither mutex held: the waiters
\* blocked in wait_for at this moment are woken.
Run_notify_all ==
    /\ w_pc = "notify"
    /\ w_pc' = "top"
    /\ c_pc' = [ j \in Jobs |-> IF c_pc[j] = "wait_asleep" THEN "wait_woken" ELSE c_pc[j] ]
    /\ UNCHANGED << session, status, job_id, job, jobs, current_job, stop_thread, joinable,
                    w_program, l_pc, wait_ret, api_ret, params, session_data,
                    simulator_mutex, ghost >>

\* A started device that is never finalized, with callers that create, submit,
\* cancel and free jobs and wait for them.
NextSleep ==
    \/ session_alloc
    \/ session_init
    \/ create_device_job
    \/ \E j \in Jobs : job_submit(j)
    \/ \E j \in Jobs : job_submit_AddJob(j)
    \/ \E j \in Jobs : job_cancel(j)
    \/ \E j \in Jobs : job_cancel_CancelJob(j)
    \/ \E j \in Jobs : job_free(j)
    \/ \E j \in Jobs : wait_enter(j)
    \/ \E j \in Jobs : wait_check(j)
    \/ \E j \in Jobs : wait_block(j)
    \/ \E j \in Jobs : wait_timeout(j)
    \/ Run_init
    \/ Run_pop
    \/ Run_block
    \/ Run_spurious
    \/ Run_finish_unlock
    \/ Run_notify_all
    \/ device_initialize

SpecSleep == Init /\ [][NextSleep]_vars

----------------------------------------------------------------------------
(* Stop() with the job the worker holds at the moment the stop flag is set   *)
(* put on record.                                                           *)

\* device_finalize up to the release of the lock in Stop(); current_job, read
\* under the lock, is recorded.
device_finalize_Stop ==
    /\ l_pc = "idle"
    /\ IF status # "OFFLINE" /\ joinable
       THEN /\ stop_thread' = TRUE
            /\ l_pc' = "notify"
            /\ api_ret' = << "Stop", current_job, "CALLED", << >> >>
       ELSE UNCHANGED << stop_thread, l_pc, api_ret >>
    /\ UNCHANGED << session, status, job_id, job, jobs, current_job, joinable,
                    w_pc, w_program, c_pc, wait_ret, params, session_data, simulator_mutex,
                    ghost >>

NextStopped ==
    \/ session_alloc
    \/ session_init
    \/ create_device_job
    \/ \E j \in Jobs : job_submit(j)
    \/ \E j \in Jobs : job_submit_AddJob(j)
    \/ \E j \in Jobs : job_cancel(j)
    \/ \E j \in Jobs : job_cancel_CancelJob(j)
    \/ \E j \in Jobs : job_free(j)
    \/ Run_init
    \/ Run_pop
    \/ Run_block
    \/ Run_spurious
    \/ Run_break
    \/ Run_finish
    \/ device_initialize
    \/ device_finalize_Stop
    \/ Stop_notify
    \/ Stop_join

SpecStopped == Init /\ [][NextStopped]_vars

----------------------------------------------------------------------------
(* Properties *)

Running == { j \in Live : job[j].status = "RUNNING" }

\* The worker takes a job off the queue in this step.
Starts == w_pc = "top" /\ w_pc' = "exec"

\* The worker's backend call returns in this step.
Finishes == w_pc = "exec" /\ w_pc' = "top"

\* C1: in every reachable state at most one job has status Running, and a job
\* whose status is Running is current_job.
C1_OneRunningIsCurrent ==
    /\ Cardinality(Running) <= 1
    /\ \A j \in Running : current_job = j

\* A job is running while another one waits in the queue.
C1_Witness == Running # {} /\ jobs # {}

\* C2 (as claimed): the ids of the jobs the worker starts never decrease.
C2_StartedIdsNonDecreasing ==
    [][ Starts => last_started <= current_job' ]_vars

\* C2 (amended): each job the worker starts has the lowest id of the queue at
\* that moment.
C2_StartsLowestQueuedId ==
    [][ Starts => (current_job' \in jobs /\ \A k \in jobs : current_job' <= k) ]_vars

\* The worker has started a job and left a higher id in the queue.
C2_Witness ==
    /\ w_pc = "exec" /\ current_job # NULL
    /\ last_started = current_job
    /\ \E k \in jobs : k > current_job

\* C3: the worker starts the queued jobs in the order of their submission (the
\* job whose AddJob came first is started first).
C3_StartsInSubmissionOrder ==
    [][ Starts => current_job' = Head(fifo) ]_vars

\* C4: a job that cancel removed from the queue never reaches Running or Done.
C4_CanceledQueuedNeverRuns ==
    (cq # NULL /\ cq \in Live) => job[cq].status \notin { "RUNNING", "DONE" }

C6_ResultsOnlyWhenDone ==
    \A j \in Live : job[j].results # {} => job[j].status = "DONE"

\* C7: a job's histogram is written once, at the transition into Done, and is
\* never written again: its value changes only from the initial empty one, in
\* a step that takes the job into Done.
C7_HistogramWrittenOnce ==
    [][ \A j \in Live \cap DOMAIN job' :
          job'[j].results # job[j].results
            => /\ job[j].results = {}
               /\ job[j].status # "DONE" /\ job'[j].status = "DONE" ]_vars

\* C8: Done and Canceled are terminal: no step changes the status of a job
\* that is Done or Canceled.
C8_TerminalStates ==
    [][ \A j \in Live \cap DOMAIN job' :
          job[j].status \in { "DONE", "CANCELED" } => job'[j].status = job[j].status ]_vars

\* C9: after a successful Start and with no Stop, a job that is in the queue
\* and is never canceled or freed eventually is Done.
C9_SubmittedEventuallyDone ==
    \A j \in Jobs :
        (j \in jobs /\ w_pc \in { "top", "blocked", "exec" })
            ~> (j \in Live /\ job[j].status = "DONE")

\* C10: wait returns success exactly when the job is Done as it returns, the
\* timeout code otherwise, and never success for a job that was Canceled.
C10_WaitSuccessOnlyWhenDone ==
    [][ \A j \in Jobs :
          (wait_ret' # wait_ret /\ wait_ret'[1] = j)
            => /\ wait_ret'[2] = "SUCCESS" <=> job'[j].status = "DONE"
               /\ wait_ret'[2] \in { "SUCCESS", "TIMEOUT" }
               /\ job[j].status = "CANCELED" => wait_ret'[2] # "SUCCESS" ]_vars

\* C11: wait only observes: the step in which wait returns changes neither a
\* job's status or results, nor the queue, current_job or the device status,
\* and on a job that is already Done it returns success.
C11_WaitOnlyObserves ==
    [][ \A j \in Jobs :
          (wait_ret' # wait_ret /\ wait_ret'[1] = j)
            => /\ job' = job /\ jobs' = jobs
               /\ current_job' = current_job /\ status' = status
               /\ job[j].status = "DONE" => wait_ret'[2] = "SUCCESS" ]_vars

C13_ResultsOnlyFromDone ==
    [][ \A j \in Jobs :
          (api_ret' # api_ret /\ api_ret'[1] = "get_results" /\ api_ret'[2] = j)
            => /\ job[j].status # "DONE"
                     => (api_ret'[3] # "SUCCESS" /\ api_ret'[4] = << NULL, {} >>)
               /\ j = cq => api_ret'[3] # "SUCCESS" ]_vars

\* C14: set_parameter with valid arguments on a job that is not Created returns
\* the bad-state code, and no call on such a job changes a field of the job or
\* its status.
C14_SetParameterOnlyWhenCreated ==
    [][ \A j \in Jobs :
          ( /\ api_ret' # api_ret /\ api_ret'[1] = "set_parameter" /\ api_ret'[2] = j
            /\ job[j].status # "CREATED" )
            => /\ api_ret'[4] = << TRUE >> => api_ret'[3] = "BADSTATE"
               /\ params' = params /\ job' = job ]_vars

\* set_parameter has been rejected on a submitted job that has a field set.
C14_Witness ==
    /\ api_ret[1] = "set_parameter" /\ api_ret[3] = "BADSTATE"
    /\ api_ret[2] \in Live /\ job[api_ret[2]].status \in { "QUEUED", "RUNNING", "DONE" }
    /\ params[api_ret[2]] # JobDefaults

\* C15: submit goes on to AddJob only for a job that is not Done, and AddJob
\* never inserts a job whose status is Done into the queue, also when the
\* worker completes the job while submit is under way.
C15_DoneNeverQueued ==
    [][ \A j \in Jobs :
          /\ (c_pc[j] = "idle" /\ c_pc'[j] = "submit") => job[j].status # "DONE"
          /\ (c_pc[j] = "submit" /\ c_pc'[j] = "idle") => job[j].status # "DONE" ]_vars

\* C16: a submit call that found the job Queued changes nothing when its
\* AddJob runs: the job stays Queued, in the queue once, and no job, the queue,
\* the current job or the device status is changed by it, so the worker
\* executes the job once for the two submissions.
C16_ResubmitQueuedIdempotent ==
    [][ \A j \in Jobs :
          ( /\ c_pc[j] = "submit" /\ c_pc'[j] = "idle"
            /\ api_ret = << "submit", j, "SUCCESS", << "QUEUED" >> >> )
             => /\ jobs' = jobs /\ job' = job /\ fifo' = fifo
                /\ current_job' = current_job /\ status' = status ]_vars

\* C17: CancelJob on a job that is neither in the queue nor the current job
\* changes nothing: no job's status, the queue, the current job and the device
\* status are as before.
C17_CancelElsewhereIsNoOp ==
    [][ \A j \in Jobs :
          ( /\ c_pc[j] = "cancel" /\ c_pc'[j] = "idle"
            /\ j \notin jobs /\ current_job # j )
             => /\ job' = job /\ jobs' = jobs
                /\ current_job' = current_job /\ status' = status ]_vars

\* C18: for a job whose submit has returned success, the cancel the caller
\* issues next returns success, and the check issued after that cancel has
\* returned reports Canceled, whatever the worker did in between.
C18_SubmitThenCancel ==
    [][ \A j \in Jobs :
          /\ ( /\ api_ret[1] = "submit" /\ api_ret[2] = j /\ api_ret[3] = "SUCCESS"
               /\ api_ret' # api_ret /\ api_ret'[1] = "cancel" /\ api_ret'[2] = j )
                => api_ret'[3] = "SUCCESS"
          /\ ( /\ api_ret[1] = "cancel" /\ api_ret[2] = j
               /\ api_ret' # api_ret /\ api_ret'[1] = "check" /\ api_ret'[2] = j
               /\ api_ret'[3] = "SUCCESS" )
                => api_ret'[4] = << "CANCELED" >> ]_vars

\* C19: once wait has returned success for a job, and no job is in the queue,
\* none is being executed and no call is in progress, a device-status query
\* returns Idle and a check of the job returns Done.
C19_DoneThenIdle ==
    [][ \A j \in Jobs :
          ( /\ wait_ret = << j, "SUCCESS" >> /\ j \in Live
            /\ jobs = {} /\ current_job = NULL /\ w_pc \in { "top", "blocked" }
            /\ \A k \in Live : job[k].status \notin { "QUEUED", "RUNNING" } /\ c_pc[k] = "idle"
            /\ api_ret' # api_ret )
             => /\ api_ret'[1] = "device_status" => api_ret'[4] = << "IDLE" >>
                /\ (api_ret'[1] = "check" /\ api_ret'[2] = j /\ api_ret'[3] = "SUCCESS")
                      => api_ret'[4] = << "DONE" >> ]_vars

\* C20: no step of Stop changes a job, the queue or the current job, so the
\* jobs in the queue keep their status and are not canceled; once Stop has set
\* stop_thread the worker starts none of them; when Stop returns the device
\* status is Offline; and Stop does its work only on a device whose thread is
\* joinable, a device without one being Offline already, so a second Stop
\* changes nothing.
C20_StopKeepsJobsGoesOffline ==
    [][ /\ l_pc' # l_pc
            => /\ job' = job /\ jobs' = jobs /\ current_job' = current_job
               /\ \A j \in jobs' : job'[j].status = job[j].status
        /\ (l_pc = "join" /\ l_pc' = "idle") => status' = "OFFLINE"
        /\ (l_pc = "idle" /\ l_pc' = "notify") => (joinable /\ status # "OFFLINE")
        /\ (l_pc' = "idle" /\ ~joinable') => status' = "OFFLINE"
        /\ Starts => ~stop_thread ]_vars

\* Stop has returned on a device whose queue still holds a Queued job.
C20_Witness ==
    /\ l_pc = "idle" /\ ~joinable /\ stop_thread /\ status = "OFFLINE"
    /\ \E j \in jobs : job[j].status = "QUEUED"

\* C21: when the worker has exited without a stop having been requested (its
\* backend load failed) and the device_initialize call has returned, the device
\* status is Offline and the call did not return success.
C21_LoadFailureReported ==
    (l_pc = "idle" /\ w_pc = "exited" /\ ~stop_thread)
        => (status = "OFFLINE" /\ api_ret[3] # "SUCCESS")

\* C22: a device_initialize issued after the backend load has failed starts a
\* fresh worker that makes a new load attempt.
C22_NewStartLoadsAgain ==
    [][ (l_pc = "idle" /\ l_pc' = "initialize" /\ w_pc = "exited" /\ ~stop_thread)
           => w_pc' = "init" ]_vars

\* C23: for HIST_KEYS and HIST_VALUES on a Done job, a call with a null buffer
\* stores the required size and writes nothing; a call with a buffer smaller
\* than the required size returns invalid-argument and writes nothing; a call
\* with a buffer of exactly the required size succeeds; and the required size
\* of HIST_VALUES is the number of keys times the width of a count.
C23_SizeProtocol ==
    \A j \in Live : job[j].status = "DONE" =>
        \A result \in { "HIST_KEYS", "HIST_VALUES" } :
            LET h == job[j].results
                q == get_results("DONE", h, result, 0, "nullptr", "ptr")
                req == q[2][1]
            IN  /\ q[1] = "SUCCESS" /\ q[2][2] = {}
                /\ result = "HIST_VALUES" => req = Cardinality(h) * 8
                /\ \A size \in BufferSizes, size_ret \in { "nullptr", "ptr" } :
                      LET r == get_results("DONE", h, result, size, "buffer", size_ret)
                      IN  /\ size < req => (r[1] = "INVALIDARGUMENT" /\ r[2][2] = {})
                          /\ size = req => r[1] = "SUCCESS"

\* What a caller reads from a buffer: the bytes written, as a text from offset 0.
TextOf(writes) ==
    [ i \in 1 .. Cardinality(writes) |-> (CHOOSE w \in writes : w[1] = i - 1)[2] ]

\* The items of a text that are closed by a comma or by the terminator.
RECURSIVE Split(_)
Split(text) ==
    IF text = << >> THEN << >>
    ELSE LET e == ScanTo(text, 1, { ",", "NUL" })
         IN  << SubSeq(text, 1, e - 1) >> \o Split(SubSeq(text, e + 1, Len(text)))

\* C24: for a Done job with a non-empty histogram, a successful HIST_KEYS call
\* writes from offset 0 a text that ends with the terminator and has no other,
\* whose comma-separated items are the histogram's bitstrings, each once, in
\* strictly ascending lexicographic order; and a successful HIST_VALUES call
\* writes as its i-th value the count of the i-th of these keys.
C24_KeysAscendingValuesAligned ==
    \A j \in Live : (job[j].status = "DONE" /\ job[j].results # {}) =>
        LET h == job[j].results
            n == Cardinality(h)
        IN  \A size \in BufferSizes, size_ret \in { "nullptr", "ptr" } :
              LET k == get_results("DONE", h, "HIST_KEYS", size, "buffer", size_ret)
                  v == get_results("DONE", h, "HIST_VALUES", size, "buffer", size_ret)
                  all == get_results("DONE", h, "HIST_KEYS", MaxKeys * 8, "buffer", size_ret)
                  order == Split(TextOf(all[2][2]))
              IN  /\ all[1] = "SUCCESS"
                  /\ k[1] = "SUCCESS" =>
                        LET text == TextOf(k[2][2])
                            keys == Split(text)
                        IN  /\ { w[1] : w \in k[2][2] } = 0 .. (Len(text) - 1)
                            /\ text[Len(text)] = "NUL"
                            /\ \A i \in 1 .. (Len(text) - 1) : text[i] # "NUL"
                            /\ Len(keys) = n
                            /\ { keys[i] : i \in 1 .. n } = { e[1] : e \in h }
                            /\ \A i \in 1 .. (n - 1) : LexLess(keys[i], keys[i + 1])
                  /\ v[1] = "SUCCESS" =>
                        v[2][2] = { << i - 1, (CHOOSE e \in h : e[1] = order[i])[2] >> :
                                      i \in 1 .. n }

\* A HIST_KEYS read of a histogram of two bitstrings has succeeded.
C24_Witness ==
    /\ api_ret[1] = "get_results" /\ api_ret[3] = "SUCCESS"
    /\ \E j \in Live : api_ret[2] = j /\ Cardinality(job[j].results) = 2
    /\ \E w \in api_ret[4][2] : w[2] = ","

C26_UnsupportedSessionParameter ==
    [][ ( /\ api_ret' # api_ret /\ api_ret'[1] = "session_set_parameter"
          /\ api_ret'[4] = << TRUE, "BASEURL" >> )
           => api_ret'[3] = "NOTSUPPORTED" ]_vars

\* C27: when job set_parameter returns success for the shots, the qubit count,
\* the simulation type, the execution type or the bond dimension with a
\* non-null value (the number 2) of any size, a query_property of the matching
\* property made next returns that value.
C27_SetQueryRoundTrip ==
    \A j \in Live :
        \A param \in { "SHOTSNUM", "CUSTOM1", "CUSTOM2", "CUSTOM3", "CUSTOM4" },
           size \in ValueSizes :
            LET r == set_parameter_result(params[j], job[j].status, param, FALSE, size, "QASM2")
                q == query_property_result(j, r[2], param, 8, FALSE, "ptr")
            IN  r[1] = "SUCCESS" => (q[1] = "SUCCESS" /\ q[2] = 2)

\* C28: a worker thread is created only when none exists, so Start on a running
\* scheduler creates no second worker; the worker begins a backend call only
\* when none is in flight, and a call is in flight only while the worker is at
\* its execute step, also after the job being executed has been canceled.
C28_OneExecuteInFlight ==
    [][ /\ (w_pc' = "init" /\ w_pc # "init") => (w_pc = "none" /\ ~joinable)
        /\ Starts => (w_program = NULL /\ w_program' # NULL)
        /\ w_program' # NULL => w_pc' = "exec" ]_vars

\* The job being executed has been canceled, another job is queued, and the
\* backend call is still in flight.
C28_Witness ==
    /\ w_pc = "exec" /\ current_job = NULL /\ jobs # {}
    /\ w_program \in Live /\ job[w_program].status = "CANCELED"

\* C29: when a job is freed, neither the queue nor current_job refers to it
\* afterwards, and at every moment the queue and current_job, through which the
\* worker reaches the jobs it reads and writes, refer to live jobs only.
C29_FreedJobUnreachable ==
    [][ /\ \A j \in Live \ DOMAIN job' : j \notin jobs' /\ current_job' # j
        /\ jobs' \subseteq DOMAIN job'
        /\ current_job' # NULL => current_job' \in DOMAIN job' ]_vars

\* A job has been freed while the worker was executing it: the backend call is
\* still in flight and another job is queued.
C29_Witness ==
    /\ w_pc = "exec" /\ w_program # NULL /\ w_program \notin Live
    /\ current_job = NULL /\ jobs # {}

C31_MutexFreeDuringCall ==
    w_pc = "exec" =>
        /\ simulator_mutex = "free"
        /\ ENABLED get_device_status_locked
        /\ \A j \in Live :
              /\ c_pc[j] = "submit" => ENABLED AddJob_locked(j)
              /\ c_pc[j] = "cancel" => ENABLED CancelJob_locked(j)
              /\ c_pc[j] = "idle" => ENABLED job_check(j)

\* A cancel of the job being executed has gone through CancelJob while the
\* backend call for that job is still in flight.
C31_Witness ==
    /\ w_pc = "exec" /\ simulator_mutex = "free" /\ current_job = NULL
    /\ w_program \in Live /\ job[w_program].status = "CANCELED"
    /\ c_pc[w_program] = "idle"

\* C32: a run whose backend call returned a text with a missing or malformed
\* counts section ends with the job Done, its histogram empty, and the worker
\* back at the head of its loop.
C32_MalformedGivesEmptyDone ==
    [][ ( /\ w_pc = "exec" /\ w_pc' # "exec" /\ current_job # NULL
          /\ api_ret'[1] = "SimpleExecute" /\ api_ret'[4] \in MalformedTexts )
        => ( /\ w_pc' = "top"
             /\ job'[current_job].status = "DONE"
             /\ job'[current_job].results = {} ) ]_vars

\* C33: once Stop has set the stop flag on a running scheduler, Stop returns
\* with the worker thread joined, whether the worker was blocked on the empty
\* queue or executing a job.
C33_StopReturns ==
    (l_pc = "notify") ~> (l_pc = "idle" /\ w_pc = "none" /\ ~joinable)

\* Stop has set the flag while the worker is blocked on the empty queue; and
\* Stop is at its join while the worker is still executing a job.
C33_Witness ==
    \/ l_pc = "notify" /\ w_pc = "blocked" /\ jobs = {}
    \/ l_pc = "join" /\ w_pc = "exec"

\* C34: whenever the worker of a started scheduler is blocked waiting for work,
\* with the queue empty and no job executing, the device status is Idle.
C34_BlockedMeansIdle ==
    (w_pc = "blocked" /\ jobs = {} /\ current_job = NULL) => status = "IDLE"

\* C35: every job held in the queue has status Queued, and the job that
\* current_job refers to is not in the queue.
C35_QueueHoldsQueuedOnly ==
    /\ \A j \in jobs : j \in Live /\ job[j].status = "QUEUED"
    /\ current_job # NULL => current_job \notin jobs

\* C36: if current_job is not null, the job it refers to has status Running.
C36_CurrentIsRunning ==
    current_job # NULL => (current_job \in Live /\ job[current_job].status = "RUNNING")

\* C37: for a Done job, HIST_KEYS called with a buffer whose size is at least
\* the reported required size writes only at offsets 0 .. size - 1 of the buffer.
C37_KeysWrittenInsideBuffer ==
    \A j \in Live : job[j].status = "DONE" =>
        LET h == job[j].results
            req == get_results("DONE", h, "HIST_KEYS", 0, "nullptr", "ptr")[2][1]
        IN  \A size \in BufferSizes, size_ret \in { "nullptr", "ptr" } :
              size >= req =>
                \A w \in get_results("DONE", h, "HIST_KEYS", size, "buffer", size_ret)[2][2] :
                    w[1] \in 0 .. (size - 1)

\* C38: the worker that takes a job whose program was never set does not
\* fail, and the run of such a job ends with the job Done, its histogram empty,
\* and the worker back at the head of its loop to take later jobs.
C38_NoProgramRunsToDone ==
    [][ /\ ( /\ w_pc = "top" /\ w_pc' # "top" /\ jobs # {} /\ ~stop_thread
             /\ params[Pick(jobs)].program = "nullptr" )
           => (w_pc' = "exec" /\ current_job' = Pick(jobs))
        /\ ( /\ w_pc = "exec" /\ w_pc' # "exec" /\ current_job # NULL
             /\ params[current_job].program = "nullptr" )
           => ( /\ w_pc' = "top"
                /\ job'[current_job].status = "DONE"
                /\ job'[current_job].results = {} ) ]_vars

\* C39: a caller blocked in wait is woken when its job reaches Done: a waiter
\* is blocked on a Done job only while the worker's notification for the
\* completion is still to come.
C39_NoLostWakeUp ==
    \A j \in Live :
        (c_pc[j] = "wait_asleep" /\ job[j].status = "DONE") => w_pc = "notify"

\* C40: when Stop returns, current_job is null, no job has status Running and
\* the worker holds no job's program: the run that was in flight when Stop was
\* called has ended, by its completion or after its job was canceled.
C40_StopLeavesNothingRunning ==
    [][ (l_pc = "join" /\ l_pc' = "idle")
          => ( /\ current_job' = NULL /\ w_program' = NULL
               /\ \A j \in Live : job'[j].status # "RUNNING" ) ]_vars

\* Stop has returned; the job that was executing when Stop set the stop flag
\* is Done, and another job is still in the queue.
C40_Witness ==
    /\ l_pc = "idle" /\ w_pc = "none" /\ ~joinable /\ status = "OFFLINE" /\ stop_thread
    /\ api_ret[1] = "Stop" /\ api_ret[2] \in Live
    /\ job[api_ret[2]].status = "DONE"
    /\ jobs # {} /\ api_ret[2] \notin jobs

====
